---- MODULE Spec2Model ----
(***************************************************************************)
(* Memory Mirror: the transcript playback pipeline of the frontend.        *)
(*                                                                         *)
(*   - wordSegments, the alignment parser of TranscriptViewer              *)
(*   - the current-word locator (the findIndex effect of TranscriptViewer) *)
(*   - the TranscriptViewer / MirrorInterface / VideoPlayer state machine  *)
(*                                                                         *)
(* Representation.  A string is a sequence of one-character strings.  A    *)
(* number of seconds is held in thousandths (SecondsScale per second), so  *)
(* the division by 1000 of the character branch is really carried out.    *)
(* JavaScript's undefined and NaN are the negative numbers Undefined and   *)
(* NaN; every comparison with them is false, as in JavaScript.  Array      *)
(* positions are 1-based here and 0-based in the source; the index field   *)
(* of a segment and currentWordIndex keep the source's 0-based values.     *)
(***************************************************************************)
EXTENDS Integers, Sequences, FiniteSets, TLC

VARIABLES
    \* ---- MirrorInterface (mirror-interface.tsx) ----
    isPlaying,          \* useState(false)
    captionText,        \* useState("")
    currentVideoUrl,    \* useState(null): 0 is null, n > 0 the n-th conversation's url
    currentAudioUrl,    \* useState(null): 0 is null, n > 0 the n-th conversation's audio
    currentAlignment,   \* useState(null)
    \* ---- TranscriptViewer (transcript-viewer.tsx) ----
    currentTime,        \* useState(0)
    currentWordIndex,   \* useState(-1)
    \* ---- the <audio> element behind audioRef ----
    audioRef,           \* TRUE when audioRef.current is an element
    audioPaused,        \* audio.paused
    audioPosition,      \* audio.currentTime
    audioPlayPromise,   \* the promise of the latest play(): "none" | "pending" |
                        \* "resolved" | "rejected"
    audioGeneration,    \* how many times a source was bound to the element
    pendingTicks,       \* queued timeupdate events, each the generation that queued it
    \* ---- the <video> element behind videoRef (video-player.tsx) ----
    videoPaused,        \* video.paused
    videoRef,           \* TRUE when videoRef.current is an element
    videoPlayPromise,   \* "none" | "pending"
    videoEvents,        \* queued play / pause events of the video element
    lastEvent,          \* the event whose handler ran last: [name, arg]
    \* ---- the query input, queryMemoryMutation and its toast ----
    inputText,          \* useState("")
    queryPending,       \* queryMemoryMutation.isPending
    queryPrompt,        \* the userPrompt handed to mutate()
    toast,              \* the notice with id "query-memory": [kind, message]
    \* ---- useAudioAnalyzer (hooks/use-audio-analyzer) ----
    anElements,         \* the Audio elements the hook created, in order
    audioElementRef,    \* audioElementRef.current: 0 is null, n the n-th element
    sourceRef,          \* sourceRef.current: 0 is null, n the node of the n-th element
    animationFrameRef,  \* TRUE when the request named by animationFrameRef.current
                        \* is still pending
    orphanFrames,       \* pending frame requests whose id the ref no longer holds
    anState,            \* the hook's state: [isPlaying, fileName, frequencyData]
    anMounted,          \* the component that uses the hook is mounted
    anCalls,            \* play / pause calls the hook made on an element
    \* ---- the copy button of TranscriptViewer ----
    copied,             \* useState(false)
    clipboardWrites,    \* navigator.clipboard.writeText promises not yet settled
    copiedTimers,       \* pending setTimeout(() => setCopied(false), 2000)
    copyResult,         \* how the promise of the last handleCopy settled: "none" |
                        \* "fulfilled" | "rejected"
    \* ---- HistoryDrawer (history-drawer.tsx) and the rows it lists ----
    isOpen,             \* the isOpen prop
    searchQuery,        \* useState("")
    offset,             \* useState(0)
    allConversations,   \* useState([]): ids of the accumulated conversations
    queryCache,         \* the cached result of each [query key, searchQuery, offset]
    fetching,           \* the keys whose queryFn is running
    dbRows,             \* ids in the conversations table, newest first
    \* ---- the parser and the locator applied to drawn inputs ----
    bpc,                \* "input" | "built" | "located"
    bText,              \* the text prop
    bAlignment,         \* the alignment prop
    bResult,            \* what wordSegments() gave
    bTime,              \* the currentTime the locator was asked about
    bIndex              \* what findIndex gave

uiVars == << isPlaying, captionText, currentVideoUrl, currentAudioUrl,
             currentAlignment, currentTime, currentWordIndex, audioRef,
             audioPaused, audioPosition, audioPlayPromise, audioGeneration,
             pendingTicks, videoRef, videoPaused, videoPlayPromise,
             videoEvents, lastEvent >>

queryVars == << inputText, queryPending, queryPrompt, toast >>

analyzerVars == << anElements, audioElementRef, sourceRef, animationFrameRef,
                   orphanFrames, anState, anMounted, anCalls >>

copyVars == << copied, clipboardWrites, copiedTimers, copyResult >>

historyVars == << isOpen, searchQuery, offset, allConversations, queryCache,
                  fetching, dbRows >>

buildVars == << bpc, bText, bAlignment, bResult, bTime, bIndex >>

vars == << uiVars, queryVars, analyzerVars, copyVars, historyVars, buildVars >>

-----------------------------------------------------------------------------
(* Bounds of the model *)

MaxTextLen == 3     \* longest narrative text drawn for the parser
MaxChars == 3       \* longest characters array drawn for the parser
MaxWords == 2       \* longest word-level list drawn for the parser
MaxTime == 4        \* largest playback time asked of the locator
MaxLoads == 3       \* conversations loaded in one run of the interface
LIMIT == 2          \* page size of the history (const LIMIT = 10, scaled down)
InitialRows == 4    \* rows in the conversations table at the start
MaxPages == 2       \* pages of the history the drawer asks for
MaxDeletes == 1     \* conversations deleted in one run
MaxCopies == 2      \* clipboard writes, and "copied" timers, pending at once
MaxAnalyzerLoads == 2   \* Audio elements the analyzer hook creates in one run
MaxOrphanFrames == 2    \* frame requests pending beside the one the ref names

(* Program constants *)

MsPerSecond == 1000     \* "/ 1000, Convert ms to seconds"
SecondsScale == 1000    \* thousandths held per second in this model

Undefined == -2         \* JavaScript undefined (an array read out of range)
NaN == -1               \* JavaScript NaN (undefined / 1000)

-----------------------------------------------------------------------------
(* JavaScript helpers *)

IsNumber(x) == x >= 0

\* a >= b and a < b on numbers; false when either side is NaN
JsGeq(a, b) == IsNumber(a) /\ IsNumber(b) /\ a >= b
JsLess(a, b) == IsNumber(a) /\ IsNumber(b) /\ a < b
JsGreater(a, b) == IsNumber(a) /\ IsNumber(b) /\ a > b

\* \s of a regular expression, and what String.prototype.trim removes
IsWhitespace(c) == c \in {" ", "\n", "\t"}

RECURSIVE TrimStart(_)
TrimStart(s) ==
    IF s = << >> THEN s
    ELSE IF IsWhitespace(Head(s)) THEN TrimStart(Tail(s)) ELSE s

RECURSIVE TrimEnd(_)
TrimEnd(s) ==
    IF s = << >> THEN s
    ELSE IF IsWhitespace(s[Len(s)]) THEN TrimEnd(SubSeq(s, 1, Len(s) - 1)) ELSE s

Trim(s) == TrimEnd(TrimStart(s))

\* arr[i] of a JavaScript array: undefined out of range
ArrayGet(arr, i) == IF i \in 1..Len(arr) THEN arr[i] ELSE Undefined

\* the first position at or after i that holds no whitespace (Len(s) + 1 if none)
RECURSIVE SkipWhitespace(_, _)
SkipWhitespace(s, i) ==
    IF i > Len(s) THEN i
    ELSE IF IsWhitespace(s[i]) THEN SkipWhitespace(s, i + 1) ELSE i

\* text.split(/\s+/): the pieces between the maximal runs of whitespace; a run
\* at either end leaves an empty piece there, and "" gives one empty piece
RECURSIVE SplitFrom(_, _, _, _)
SplitFrom(s, i, piece, acc) ==
    IF i > Len(s) THEN Append(acc, piece)
    ELSE IF IsWhitespace(s[i])
         THEN SplitFrom(s, SkipWhitespace(s, i), << >>, Append(acc, piece))
         ELSE SplitFrom(s, i + 1, Append(piece, s[i]), acc)

SplitWhitespace(text) == SplitFrom(text, 1, << >>, << >>)

-----------------------------------------------------------------------------
(* AlignmentData (types/memory.ts).  present = FALSE is the null prop;     *)
(* hasStartTimes / hasEndTimes = FALSE is a payload without that array.    *)

NullAlignment ==
    [present |-> FALSE, characters |-> << >>,
     hasStartTimes |-> FALSE, character_start_times_ms |-> << >>,
     hasEndTimes |-> FALSE, character_end_times_ms |-> << >>,
     words |-> << >>]

\* wordStartTime / 1000 and endTimeMs / 1000
MsToSeconds(ms) ==
    IF IsNumber(ms) THEN (ms * SecondsScale) \div MsPerSecond ELSE NaN

Segment(word, startTime, endTime, index) ==
    [word |-> word, startTime |-> startTime, endTime |-> endTime, index |-> index]

\* text.split(/\s+/).map((word, index) => ({word, startTime: 0, endTime: 0, index}))
FallbackSegments(text) ==
    LET pieces == SplitWhitespace(text)
    IN [i \in 1..Len(pieces) |-> Segment(pieces[i], 0, 0, i - 1)]

\* faulty variant: the word-level times taken for milliseconds and divided by 1000
WordLevelSegmentsConverted(alignment) ==
    [i \in 1..Len(alignment.words) |->
        Segment(alignment.words[i].text, alignment.words[i].start \div MsPerSecond,
                alignment.words[i].end \div MsPerSecond, i - 1)]

\* alignment.words.map((word, index) => ({word: word.text, startTime: word.start, ...}))
WordLevelSegments(alignment) ==
    [i \in 1..Len(alignment.words) |->
        Segment(alignment.words[i].text, alignment.words[i].start,
                alignment.words[i].end, i - 1)]

\* const startTimeMs = alignment.character_start_times_ms[i]
startTimeMs(alignment, i) == ArrayGet(alignment.character_start_times_ms, i)

\* faulty variant: the end time read from the character before the boundary
endTimeMsOfLastLetter(alignment, i) ==
    ArrayGet(alignment.character_end_times_ms, i - 1)

\* const endTimeMs = alignment.character_end_times_ms[i]
endTimeMs(alignment, i) == ArrayGet(alignment.character_end_times_ms, i)

\* one call of the forEach callback on characters[i]
CharStep(alignment, st, i) ==
    LET char == alignment.characters[i]
    IN IF char = " " \/ char = "\n"
       THEN IF Trim(st.currentWord) # << >>
            THEN [st EXCEPT
                    !.words = Append(@, Segment(Trim(st.currentWord),
                                                MsToSeconds(st.wordStartTime),
                                                MsToSeconds(endTimeMs(alignment, i)),
                                                st.wordIndex)),
                    !.wordIndex = @ + 1,
                    !.currentWord = << >>]
            ELSE st
       ELSE [st EXCEPT
                !.wordStartTime = IF st.currentWord = << >>
                                  THEN startTimeMs(alignment, i) ELSE @,
                !.currentWord = Append(@, char)]

RECURSIVE CharLoop(_, _, _)
CharLoop(alignment, st, i) ==
    IF i > Len(alignment.characters) THEN st
    ELSE CharLoop(alignment, CharStep(alignment, st, i), i + 1)

\* the character-level branch, lines 95-133
CharLevelSegments(alignment) ==
    LET st == CharLoop(alignment,
                       [words |-> << >>, currentWord |-> << >>,
                        wordStartTime |-> 0, wordIndex |-> 0], 1)
        lastEndTime == ArrayGet(alignment.character_end_times_ms,
                                Len(alignment.characters))
    IN IF Trim(st.currentWord) # << >>
       THEN Append(st.words, Segment(Trim(st.currentWord),
                                     MsToSeconds(st.wordStartTime),
                                     MsToSeconds(lastEndTime), st.wordIndex))
       ELSE st.words

\* reading [i] of an array the payload does not carry throws a TypeError; the
\* forEach callback does so on its first call
CharBranchThrows(alignment) ==
    /\ alignment.characters # << >>
    /\ ~alignment.hasStartTimes \/ ~alignment.hasEndTimes

\* which branch wordSegments() takes
UsesFallback(alignment) ==
    \/ ~alignment.present
    \/ /\ alignment.words = << >>
       /\ alignment.characters = << >>

UsesWordLevel(alignment) ==
    /\ alignment.present
    /\ Len(alignment.words) > 0

\* wordSegments(): threw = TRUE when the call ends in a TypeError
wordSegments(text, alignment) ==
    IF ~alignment.present THEN [threw |-> FALSE, segs |-> FallbackSegments(text)]
    ELSE IF UsesWordLevel(alignment)
         THEN [threw |-> FALSE, segs |-> WordLevelSegments(alignment)]
    ELSE IF alignment.characters = << >>
         THEN [threw |-> FALSE, segs |-> FallbackSegments(text)]
    ELSE IF CharBranchThrows(alignment) THEN [threw |-> TRUE, segs |-> << >>]
    ELSE [threw |-> FALSE, segs |-> CharLevelSegments(alignment)]

-----------------------------------------------------------------------------
(* The locator: words.findIndex(w => currentTime >= w.startTime &&         *)
(*                                   currentTime < w.endTime)              *)

\* faulty variant: the interval closed at its end: currentTime <= word.endTime
TimeInWordClosed(word, t) ==
    JsGeq(t, word.startTime) /\ (JsLess(t, word.endTime) \/ t = word.endTime)

TimeInWord(word, t) == JsGeq(t, word.startTime) /\ JsLess(t, word.endTime)

RECURSIVE FindIndexFrom(_, _, _)
FindIndexFrom(words, t, i) ==
    IF i > Len(words) THEN -1
    ELSE IF TimeInWord(words[i], t) THEN i - 1
    ELSE FindIndexFrom(words, t, i + 1)

findCurrentIndex(words, t) == FindIndexFrom(words, t, 1)

-----------------------------------------------------------------------------
(* Records of the interface *)

\* the event a handler ran for, with its argument (0 when it has none)
Event(name, arg) == [name |-> name, arg |-> arg]

\* the toast with id "query-memory"; kind "none" when it was never shown
Toast(kind, message) == [kind |-> kind, message |-> message]
NoToast == Toast("none", "")

\* fileName: null
NoName == ""

-----------------------------------------------------------------------------
(* The inputs drawn for the parser and the locator *)

Alphabet == {"a", " ", "\n", "\t"}

SeqsUpTo(S, n) == UNION { [1..k -> S] : k \in 0..n }

Texts == SeqsUpTo(Alphabet, MaxTextLen)

\* character i starts at 2(i-1) ms and lasts dur ms
StartTimes(n) == [i \in 1..n |-> 2 * (i - 1)]
EndTimes(n, dur) == [i \in 1..n |-> 2 * (i - 1) + dur]

\* timing arrays shorter than, as long as and longer than n characters
ArrayLengths(n) == {0, n - 1, n, n + 1} \cap Nat

WordTexts == {<<"a">>, <<"b", "a">>}

WordEntries ==
    { x \in [text : WordTexts, start : 0..2, end : 0..3] :
        x.start <= x.end /\ x.end <= x.start + 1 }

WordLists == UNION { [1..k -> WordEntries] : k \in 1..MaxWords }

\* payloads that carry characters: every mix of missing, short and long arrays
CharLevelAlignments ==
    { [present |-> TRUE, characters |-> cs,
       hasStartTimes |-> hs, character_start_times_ms |-> IF hs THEN StartTimes(ls) ELSE << >>,
       hasEndTimes |-> he, character_end_times_ms |-> IF he THEN EndTimes(le, dur) ELSE << >>,
       words |-> << >>] :
        cs \in SeqsUpTo(Alphabet, MaxChars) \ {<< >>},
        hs \in BOOLEAN, he \in BOOLEAN,
        ls \in 0..(MaxChars + 1), le \in 0..(MaxChars + 1), dur \in 1..2 }

WellShaped(al) ==
    /\ al.hasStartTimes \/ al.character_start_times_ms = << >>
    /\ al.hasEndTimes \/ al.character_end_times_ms = << >>
    /\ Len(al.character_start_times_ms) \in ArrayLengths(Len(al.characters))
    /\ Len(al.character_end_times_ms) \in ArrayLengths(Len(al.characters))

\* a payload that is present and carries nothing
EmptyAlignment ==
    [present |-> TRUE, characters |-> << >>,
     hasStartTimes |-> TRUE, character_start_times_ms |-> << >>,
     hasEndTimes |-> TRUE, character_end_times_ms |-> << >>,
     words |-> << >>]

\* a payload with a word-level list, with or without character arrays beside it
WordLevelAlignments ==
    { [present |-> TRUE, characters |-> cs,
       hasStartTimes |-> TRUE, character_start_times_ms |-> StartTimes(Len(cs)),
       hasEndTimes |-> TRUE, character_end_times_ms |-> EndTimes(Len(cs), 1),
       words |-> ws] :
        cs \in {<< >>, <<"b", " ", "b">>}, ws \in WordLists }

BuildInputs ==
    (Texts \X {NullAlignment, EmptyAlignment})
    \cup ({<< >>, <<"a">>} \X WordLevelAlignments)
    \cup ({<< >>, <<"a", " ", "a">>} \X { al \in CharLevelAlignments : WellShaped(al) })

NoResult == [threw |-> FALSE, segs |-> << >>]

\* the parser's inputs are drawn; the interface stays as constructed
BuildInit ==
    /\ isPlaying = FALSE
    /\ captionText = << >>
    /\ currentVideoUrl = 0
    /\ currentAudioUrl = 0
    /\ currentAlignment = NullAlignment
    /\ currentTime = 0
    /\ currentWordIndex = -1
    /\ audioRef = FALSE
    /\ audioPaused = TRUE
    /\ audioPosition = 0
    /\ audioPlayPromise = "none"
    /\ audioGeneration = 0
    /\ pendingTicks = {}
    /\ videoRef = FALSE
    /\ videoPaused = TRUE
    /\ videoPlayPromise = "none"
    /\ videoEvents = {}
    /\ lastEvent = Event("init", 0)
    /\ inputText = << >>
    /\ queryPending = FALSE
    /\ queryPrompt = << >>
    /\ toast = NoToast
    /\ anElements = << >>
    /\ audioElementRef = 0
    /\ sourceRef = 0
    /\ animationFrameRef = FALSE
    /\ orphanFrames = 0
    /\ anState = [isPlaying |-> FALSE, fileName |-> NoName, frequencyData |-> "silent"]
    /\ anMounted = TRUE
    /\ anCalls = {}
    /\ copied = FALSE
    /\ clipboardWrites = 0
    /\ copiedTimers = 0
    /\ copyResult = "none"
    /\ isOpen = FALSE
    /\ searchQuery = ""
    /\ offset = 0
    /\ allConversations = << >>
    /\ queryCache = [k \in {"", "x"} \X { n * LIMIT : n \in 0..(MaxPages - 1) } |->
                        [has |-> FALSE, data |-> << >>, total |-> 0, stale |-> FALSE]]
    /\ fetching = {}
    /\ dbRows = [i \in 1..InitialRows |-> InitialRows + 1 - i]
    /\ bpc = "input"
    /\ \E inp \in BuildInputs : bText = inp[1] /\ bAlignment = inp[2]
    /\ bResult = NoResult
    /\ bTime = 0
    /\ bIndex = -1

\* const words = wordSegments()
Build ==
    /\ bpc = "input"
    /\ bResult' = wordSegments(bText, bAlignment)
    /\ bpc' = "built"
    /\ UNCHANGED << bText, bAlignment, bTime, bIndex, uiVars, queryVars, analyzerVars,
                    copyVars, historyVars >>

\* words.findIndex(...) at playback time t
Locate(t) ==
    /\ bpc = "built"
    /\ ~bResult.threw
    /\ bIndex' = findCurrentIndex(bResult.segs, t)
    /\ bTime' = t
    /\ bpc' = "located"
    /\ UNCHANGED << bText, bAlignment, bResult, uiVars, queryVars, analyzerVars,
                    copyVars, historyVars >>

BuildNext ==
    \/ Build
    \/ \E t \in 0..MaxTime : Locate(t)

-----------------------------------------------------------------------------
(* The conversations the collaborators hand over (QueryMemoryResponse,     *)
(* ConversationHistoryItem).  Times are in thousandths; duration is the    *)
(* length of the audio.                                                    *)

PlainText == <<"a", " ", "b">>

Conversations == <<
    \* 1: word-level alignment, a gap between the two words
    [narrative |-> <<"h", "i", " ", "y", "o">>,
     alignment |-> [EmptyAlignment EXCEPT
                      !.words = << [text |-> <<"h", "i">>, start |-> 0, end |-> 1],
                                   [text |-> <<"y", "o">>, start |-> 2, end |-> 3] >>],
     hasVideo |-> TRUE, duration |-> 3],
    \* 2: no alignment, no video (a history item)
    [narrative |-> PlainText, alignment |-> NullAlignment,
     hasVideo |-> FALSE, duration |-> 2],
    \* 3: an alignment that is present and empty
    [narrative |-> PlainText, alignment |-> EmptyAlignment,
     hasVideo |-> TRUE, duration |-> 2],
    \* 4: character-level alignment
    [narrative |-> PlainText,
     alignment |-> [EmptyAlignment EXCEPT
                      !.characters = PlainText,
                      !.character_start_times_ms = <<0, 1, 2>>,
                      !.character_end_times_ms = <<1, 2, 3>>],
     hasVideo |-> TRUE, duration |-> 3] >>

ConversationIds == 1..Len(Conversations)

Duration(url) == IF url = 0 THEN 0 ELSE Conversations[url].duration

Min(a, b) == IF a <= b THEN a ELSE b

\* const words = wordSegments(), as the render sees it
WordsOf(text, alignment) == wordSegments(text, alignment).segs
Words == WordsOf(captionText, currentAlignment)

\* the effect "Update current word based on playback time"; its dependency
\* words is a fresh array on every render, so it runs after every render
CurrentWordEffect(alignment, words, time, index) ==
    IF ~alignment.present THEN index ELSE findCurrentIndex(words, time)

-----------------------------------------------------------------------------
(* The media elements *)

AudioEl == [paused |-> audioPaused, position |-> audioPosition,
            promise |-> audioPlayPromise]

VideoEl == [paused |-> videoPaused, promise |-> videoPlayPromise,
            events |-> videoEvents]

\* audio.play(): the promise settles later; at the end of the track play starts over
ElPlay(el, dur) ==
    IF el.paused
    THEN [paused |-> TRUE,
          position |-> IF el.position >= dur THEN 0 ELSE el.position,
          promise |-> "pending"]
    ELSE [el EXCEPT !.promise = "resolved"]

\* audio.pause()
ElPause(el) == [el EXCEPT !.paused = TRUE, !.promise = "none"]

\* a new src on the element, or a new element: paused at 0
ElLoad == [paused |-> TRUE, position |-> 0, promise |-> "none"]

\* video.play() and video.pause(); a pause of a playing video fires "pause"
VideoPlay(v) == IF v.paused THEN [v EXCEPT !.promise = "pending"] ELSE v
VideoPause(v) ==
    [paused |-> TRUE, promise |-> "none",
     events |-> IF v.paused THEN v.events ELSE v.events \cup {"pause"}]
VideoLoad == [paused |-> TRUE, promise |-> "none", events |-> {}]

\* "Sync audio playback with isPlaying prop" (dependency: isPlaying)
AudioSync(el, mounted, playing, dur) ==
    IF ~mounted THEN el
    ELSE IF playing THEN ElPlay(el, dur) ELSE ElPause(el)

\* the same effect of VideoPlayer
VideoSync(v, mounted, playing) ==
    IF ~mounted THEN v
    ELSE IF playing THEN VideoPlay(v) ELSE VideoPause(v)

\* setIsPlaying(playing) and the render after it, on elements already in the
\* states el and v: the two sync effects run only when isPlaying changed
ApplyPlayState(playing, el, v) ==
    LET changed == playing # isPlaying
        el2 == IF changed
               THEN AudioSync(el, audioRef, playing, Duration(currentAudioUrl))
               ELSE el
        v2 == IF changed THEN VideoSync(v, videoRef, playing) ELSE v
    IN /\ isPlaying' = playing
       /\ audioPaused' = el2.paused
       /\ audioPosition' = el2.position
       /\ audioPlayPromise' = el2.promise
       /\ videoPaused' = v2.paused
       /\ videoPlayPromise' = v2.promise
       /\ videoEvents' = v2.events

-----------------------------------------------------------------------------
(* MirrorInterface *)

UIInit ==
    /\ isPlaying = FALSE
    /\ captionText = << >>
    /\ currentVideoUrl = 0
    /\ currentAudioUrl = 0
    /\ currentAlignment = NullAlignment
    /\ currentTime = 0
    /\ currentWordIndex = -1
    /\ audioRef = FALSE
    /\ audioPaused = TRUE
    /\ audioPosition = 0
    /\ audioPlayPromise = "none"
    /\ audioGeneration = 0
    /\ pendingTicks = {}
    /\ videoRef = FALSE
    /\ videoPaused = TRUE
    /\ videoPlayPromise = "none"
    /\ videoEvents = {}
    /\ lastEvent = Event("init", 0)
    /\ inputText = << >>
    /\ queryPending = FALSE
    /\ queryPrompt = << >>
    /\ toast = NoToast
    /\ anElements = << >>
    /\ audioElementRef = 0
    /\ sourceRef = 0
    /\ animationFrameRef = FALSE
    /\ orphanFrames = 0
    /\ anState = [isPlaying |-> FALSE, fileName |-> NoName, frequencyData |-> "silent"]
    /\ anMounted = TRUE
    /\ anCalls = {}
    /\ copied = FALSE
    /\ clipboardWrites = 0
    /\ copiedTimers = 0
    /\ copyResult = "none"
    /\ isOpen = FALSE
    /\ searchQuery = ""
    /\ offset = 0
    /\ allConversations = << >>
    /\ queryCache = [k \in {"", "x"} \X { n * LIMIT : n \in 0..(MaxPages - 1) } |->
                        [has |-> FALSE, data |-> << >>, total |-> 0, stale |-> FALSE]]
    /\ fetching = {}
    /\ dbRows = [i \in 1..InitialRows |-> InitialRows + 1 - i]
    /\ bpc = "input"
    /\ bText = << >>
    /\ bAlignment = NullAlignment
    /\ bResult = NoResult
    /\ bTime = 0
    /\ bIndex = -1

\* the state updates shared by onSuccess and handleReplayConversation, the
\* render after them and its effects.  The <audio> element stays the same
\* element while a source is bound; a new src makes the user agent load it
\* (paused, at 0, a timeupdate queued if the position moved).  Whether
\* timeupdate events already queued for the old source are still delivered
\* is the user agent's choice: both outcomes are modelled.
LoadConversation(c, video) ==
    LET conv == Conversations[c]
        rebound == ~audioRef \/ currentAudioUrl # c
        changed == ~isPlaying
        el0 == IF rebound THEN ElLoad ELSE AudioEl
        el1 == IF changed THEN ElPlay(el0, conv.duration) ELSE el0
        vmounted == video # 0
        v0 == IF ~vmounted \/ ~videoRef \/ currentVideoUrl # video
              THEN VideoLoad ELSE VideoEl
        v1 == IF changed /\ vmounted THEN VideoPlay(v0) ELSE v0
    IN /\ rebound => audioGeneration < MaxLoads
       /\ captionText' = conv.narrative
       /\ currentAudioUrl' = c
       /\ currentAlignment' = conv.alignment
       /\ currentVideoUrl' = video
       /\ isPlaying' = TRUE
       /\ audioRef' = TRUE
       /\ audioPaused' = el1.paused
       /\ audioPosition' = el1.position
       /\ audioPlayPromise' = el1.promise
       /\ audioGeneration' = IF rebound THEN audioGeneration + 1 ELSE audioGeneration
       /\ \E kept \in {pendingTicks, {}} :
            pendingTicks' =
                IF ~rebound THEN pendingTicks
                ELSE kept \cup (IF audioRef /\ audioPosition # 0
                                THEN {audioGeneration + 1} ELSE {})
       /\ videoRef' = vmounted
       /\ videoPaused' = v1.paused
       /\ videoPlayPromise' = v1.promise
       /\ videoEvents' = v1.events
       /\ currentWordIndex' =
            CurrentWordEffect(conv.alignment, WordsOf(conv.narrative, conv.alignment),
                              currentTime, currentWordIndex)
       /\ UNCHANGED << currentTime, analyzerVars, copyVars, buildVars >>

-----------------------------------------------------------------------------
(* HistoryDrawer (history-drawer.tsx), the query cache behind its useQuery  *)
(* and the server actions of conversation-actions.ts.  A cache entry is     *)
(* [has, data, total, stale]: has = FALSE is data undefined.  A refetch     *)
(* whose result equals the cached one keeps the cached object (structural  *)
(* sharing), so the identity of data is its key and its value.              *)

SearchQueries == {"", "x"}
Offsets == { k * LIMIT : k \in 0..(MaxPages - 1) }
QueryKeys == SearchQueries \X Offsets

\* queryKey: [CONVERSATION_HISTORY_QUERY_KEY, searchQuery, offset]
queryKey == << searchQuery, offset >>

\* ilike(userPrompt, %q%) or ilike(narrative, %q%): the rows with an odd id
\* are the ones that hold "x"
Matches(id, q) == q = "" \/ id % 2 = 1

\* getConversationHistory({limit, offset, searchQuery}) on the rows given
getConversationHistory(rows, q, off) ==
    LET found == SelectSeq(rows, LAMBDA id : Matches(id, q))
    IN [data |-> SubSeq(found, off + 1, Min(off + LIMIT, Len(found))),
        total |-> Len(found)]

\* data of useQuery for a key: undefined is the entry with has = FALSE
QueryData(cache, key) ==
    IF cache[key].has
    THEN [has |-> TRUE, data |-> cache[key].data, total |-> cache[key].total]
    ELSE [has |-> FALSE, data |-> << >>, total |-> 0]

\* an enabled observer fetches a key it turns to when nothing is cached for
\* it or what is cached is stale
FetchOnObserve(cache, key) ==
    IF ~cache[key].has \/ cache[key].stale THEN {key} ELSE {}

\* "Update accumulated conversations when data changes": the effect with
\* dependencies [data, offset], run after a render that changed either; all
\* is allConversations as the handler left it
Accumulate(all, oldKey, oldCache, newKey, newCache) ==
    LET new == QueryData(newCache, newKey)
        changed == newKey # oldKey \/ new # QueryData(oldCache, oldKey)
    IN IF changed /\ new.has
       THEN IF newKey[2] = 0 THEN new.data ELSE all \o new.data
       ELSE all

\* const hasMore = data ? allConversations.length < (data.total || 0) : false
hasMore ==
    /\ queryCache[queryKey].has
    /\ Len(allConversations) < queryCache[queryKey].total

\* conversations={offset === 0 ? data?.data || [] : allConversations}
ShownConversations ==
    IF offset = 0 THEN QueryData(queryCache, queryKey).data ELSE allConversations

\* queryClient.invalidateQueries: every cached result becomes stale, and the
\* query an enabled observer watches is fetched again
invalidateQueries ==
    /\ queryCache' = [k \in QueryKeys |->
                        [queryCache[k] EXCEPT !.stale = queryCache[k].has]]
    /\ fetching' = IF isOpen THEN fetching \cup {queryKey} ELSE fetching

\* setIsHistoryOpen(true): the query becomes enabled
OpenHistory ==
    /\ ~isOpen
    /\ isOpen' = TRUE
    /\ fetching' = fetching \cup FetchOnObserve(queryCache, queryKey)
    /\ UNCHANGED << searchQuery, offset, allConversations, queryCache, dbRows,
                    uiVars, queryVars, analyzerVars, copyVars, buildVars >>

\* onClose: setIsHistoryOpen(false); the drawer stays mounted
onClose ==
    /\ isOpen
    /\ isOpen' = FALSE
    /\ UNCHANGED << searchQuery, offset, allConversations, queryCache, fetching,
                    dbRows, uiVars, queryVars, analyzerVars, copyVars, buildVars >>

\* handleSearch(query), and the render and effect after it
handleSearch(q) ==
    /\ isOpen
    /\ searchQuery' = q
    /\ offset' = 0
    /\ allConversations' =
          Accumulate(<< >>, queryKey, queryCache, << q, 0 >>, queryCache)
    /\ fetching' = fetching \cup
          (IF << q, 0 >> # queryKey THEN FetchOnObserve(queryCache, << q, 0 >>)
           ELSE {})
    /\ UNCHANGED << isOpen, queryCache, dbRows,
                    uiVars, queryVars, analyzerVars, copyVars, buildVars >>

\* handleLoadMore, called by the list's observer when hasMore && !isLoading,
\* and the render and effect after it
handleLoadMore ==
    /\ isOpen
    /\ hasMore
    /\ ShownConversations # << >>
    /\ offset + LIMIT \in Offsets
    /\ offset' = offset + LIMIT
    /\ allConversations' =
          Accumulate(allConversations, queryKey, queryCache,
                     << searchQuery, offset + LIMIT >>, queryCache)
    /\ fetching' = fetching \cup
          FetchOnObserve(queryCache, << searchQuery, offset + LIMIT >>)
    /\ UNCHANGED << isOpen, searchQuery, queryCache, dbRows,
                    uiVars, queryVars, analyzerVars, copyVars, buildVars >>

\* the queryFn of a key returns: the result is cached, and if it is the key
\* the drawer watches the effect runs on the new data
FetchSettles(key) ==
    /\ key \in fetching
    /\ LET result == getConversationHistory(dbRows, key[1], key[2])
           cache == [queryCache EXCEPT
                        ![key] = [has |-> TRUE, data |-> result.data,
                                  total |-> result.total, stale |-> FALSE]]
       IN /\ queryCache' = cache
          /\ allConversations' =
                Accumulate(allConversations, queryKey, queryCache, queryKey, cache)
    /\ fetching' = fetching \ {key}
    /\ UNCHANGED << isOpen, searchQuery, offset, dbRows,
                    uiVars, queryVars, analyzerVars, copyVars, buildVars >>

\* handleDelete(id), deleteConversation on the server, and onSuccess of
\* deleteMutation: invalidateQueries, setOffset(0), setAllConversations([])
handleDelete(id) ==
    /\ isOpen
    /\ \E i \in 1..Len(ShownConversations) : ShownConversations[i] = id
    /\ Len(dbRows) > InitialRows - MaxDeletes
    /\ dbRows' = SelectSeq(dbRows, LAMBDA r : r # id)
    /\ LET cache == [k \in QueryKeys |->
                        [queryCache[k] EXCEPT !.stale = queryCache[k].has]]
           key == << searchQuery, 0 >>
       IN /\ queryCache' = cache
          /\ fetching' = fetching \cup {queryKey} \cup
                (IF key # queryKey THEN FetchOnObserve(cache, key) ELSE {})
          /\ allConversations' = Accumulate(<< >>, queryKey, queryCache, key, cache)
    /\ offset' = 0
    /\ UNCHANGED << isOpen, searchQuery,
                    uiVars, queryVars, analyzerVars, copyVars, buildVars >>

-----------------------------------------------------------------------------
(* queryMemoryMutation and the server action behind it *)

\* a || b on strings: the empty string (like a missing field) gives b
OrDefault(a, b) == IF a = "" THEN b ELSE a

\* how a query can fail: the search finds nothing, the reply generation
\* answers success = false with or without a message, or its request fails
FailedReplies ==
    { [stage |-> "search", message |-> ""],
      [stage |-> "generate", message |-> ""],
      [stage |-> "generate", message |-> "No clip matches"],
      [stage |-> "request", message |-> "Generate response failed: 500"] }

\* a faulty variant: the service always answers with its default text
queryMemoryServiceDefault(reply) == "Failed to generate response"

\* queryMemoryService: message of its success = false answer
queryMemoryService(reply) ==
    IF reply.stage = "request"
    THEN "Failed to query memory: " \o reply.message
    ELSE OrDefault(reply.message, "Failed to generate response")

\* queryMemory (the server action): error of its success = false answer
queryMemory(reply) ==
    IF reply.stage = "search" THEN "No matching memory found"
    ELSE OrDefault(queryMemoryService(reply), "Failed to generate response")

\* mutationFn: throw new Error(result.error || "Failed to query memory")
mutationFn(reply) == OrDefault(queryMemory(reply), "Failed to query memory")

\* what the user can have in the text box
InputTexts == { << >>, <<" ">>, <<"q", " ">> }

\* onChange of the text box, or a click on a suggested question
setInputText(t) ==
    /\ t # inputText
    /\ inputText' = t
    /\ lastEvent' = Event("input", 0)
    /\ UNCHANGED << isPlaying, captionText, currentVideoUrl, currentAudioUrl,
                    currentAlignment, currentTime, currentWordIndex, audioRef,
                    audioPaused, audioPosition, audioPlayPromise, audioGeneration,
                    pendingTicks, videoRef, videoPaused, videoPlayPromise,
                    videoEvents, queryPending, queryPrompt, toast,
                    analyzerVars, copyVars, historyVars, buildVars >>

\* faulty variant: a send is turned away only for blank input
SendIgnoredWhenBlank == Trim(inputText) = << >>

\* if (!inputText.trim() || queryMemoryMutation.isPending) return
SendIgnored == Trim(inputText) = << >> \/ queryPending

\* handleSendMessage, and onMutate of the mutation it starts
handleSendMessage ==
    /\ lastEvent' = Event("send", 0)
    /\ IF SendIgnored
       THEN UNCHANGED queryVars
       ELSE /\ inputText' = << >>
            /\ queryPrompt' = Trim(inputText)
            /\ queryPending' = TRUE
            /\ toast' = Toast("loading", "Searching your memories...")
    /\ UNCHANGED << isPlaying, captionText, currentVideoUrl, currentAudioUrl,
                    currentAlignment, currentTime, currentWordIndex, audioRef,
                    audioPaused, audioPosition, audioPlayPromise, audioGeneration,
                    pendingTicks, videoRef, videoPaused, videoPlayPromise,
                    videoEvents, analyzerVars, copyVars, historyVars, buildVars >>

\* queryMemoryMutation.onSuccess with videoUrl, audioBase64 and narrative set
QuerySuccess(c) ==
    /\ queryPending
    /\ Conversations[c].hasVideo
    /\ LoadConversation(c, c)
    /\ queryPending' = FALSE
    /\ toast' = Toast("success", "Memory found!")
    /\ lastEvent' = Event("onSuccess", c)
    /\ invalidateQueries
    /\ UNCHANGED << inputText, queryPrompt, searchQuery, offset, allConversations,
                    isOpen, dbRows >>

\* onSuccess with videoUrl, audioBase64 or narrative missing: the if is skipped
QuerySuccessIncomplete ==
    /\ queryPending
    /\ queryPending' = FALSE
    /\ lastEvent' = Event("onSuccess", 0)
    /\ UNCHANGED << isPlaying, captionText, currentVideoUrl, currentAudioUrl,
                    currentAlignment, currentTime, currentWordIndex, audioRef,
                    audioPaused, audioPosition, audioPlayPromise, audioGeneration,
                    pendingTicks, videoRef, videoPaused, videoPlayPromise,
                    videoEvents, inputText, queryPrompt, toast,
                    analyzerVars, copyVars, historyVars, buildVars >>

\* queryMemoryMutation.onError: toast.error(error.message)
QueryError(reply) ==
    /\ queryPending
    /\ queryPending' = FALSE
    /\ toast' = Toast("error", mutationFn(reply))
    /\ lastEvent' = Event("onError", 0)
    /\ UNCHANGED << isPlaying, captionText, currentVideoUrl, currentAudioUrl,
                    currentAlignment, currentTime, currentWordIndex, audioRef,
                    audioPaused, audioPosition, audioPlayPromise, audioGeneration,
                    pendingTicks, videoRef, videoPaused, videoPlayPromise,
                    videoEvents, inputText, queryPrompt,
                    analyzerVars, copyVars, historyVars, buildVars >>

\* handleReplayConversation: videoUrl || null
handleReplayConversation(c) ==
    /\ LoadConversation(c, IF Conversations[c].hasVideo THEN c ELSE 0)
    /\ lastEvent' = Event("replay", c)
    /\ UNCHANGED << queryVars, historyVars >>

\* resetMirrorInterface (after an upload): both media elements unmount
resetMirrorInterface ==
    /\ isPlaying' = FALSE
    /\ captionText' = << >>
    /\ currentVideoUrl' = 0
    /\ currentAudioUrl' = 0
    /\ currentAlignment' = NullAlignment
    /\ audioRef' = FALSE
    /\ audioPaused' = TRUE
    /\ audioPosition' = 0
    /\ audioPlayPromise' = "none"
    /\ pendingTicks' = {}
    /\ videoRef' = FALSE
    /\ videoPaused' = TRUE
    /\ videoPlayPromise' = "none"
    /\ videoEvents' = {}
    /\ lastEvent' = Event("reset", 0)
    /\ inputText' = << >>
    /\ currentWordIndex' =
            CurrentWordEffect(NullAlignment, WordsOf(<< >>, NullAlignment),
                              currentTime, currentWordIndex)
    /\ UNCHANGED << currentTime, audioGeneration, queryPending, queryPrompt, toast,
                    analyzerVars, copyVars, historyVars, buildVars >>

-----------------------------------------------------------------------------
(* TranscriptViewer *)

\* a faulty variant: any word is clickable once an alignment is present
IsClickableAnyTiming(word) == currentAlignment.present

\* a faulty variant: a word that starts at 0 is clickable when it has an end
IsClickableWithEnd(word) ==
    /\ currentAlignment.present
    /\ JsGreater(word.startTime, 0) \/ JsGreater(word.endTime, 0)

\* const isClickable = alignment && word.startTime > 0
IsClickable(word) == currentAlignment.present /\ JsGreater(word.startTime, 0)

\* the render after a step that leaves text and alignment alone
Rerender(time) ==
    currentWordIndex' =
        CurrentWordEffect(currentAlignment, Words, time, currentWordIndex)

\* the play / pause button, rendered when alignment is set
handlePlayPause ==
    /\ captionText # << >>
    /\ currentAlignment.present
    /\ audioRef
    /\ ApplyPlayState(~isPlaying,
                      IF isPlaying THEN ElPause(AudioEl)
                      ELSE ElPlay(AudioEl, Duration(currentAudioUrl)),
                      VideoEl)
    /\ Rerender(currentTime)
    /\ lastEvent' = Event("playPause", 0)
    /\ UNCHANGED << captionText, currentVideoUrl, currentAudioUrl, currentAlignment,
                    currentTime, audioRef, audioGeneration, pendingTicks,
                    videoRef, queryVars, analyzerVars, copyVars, historyVars, buildVars >>

\* a faulty variant: the seek goes to the end of the word
SeekTargetEnd(word) == word.endTime

\* audioRef.current.currentTime = word.startTime
SeekTarget(word) == word.startTime

\* a click on the k-th rendered word: onClick={() => isClickable &&
\* handleWordClick(word)}.  The seek queues a timeupdate.
handleWordClick(k) ==
    /\ captionText # << >>
    /\ k \in 1..Len(Words)
    /\ lastEvent' = Event("click", k)
    /\ IF IsClickable(Words[k]) /\ audioRef /\ currentAlignment.present
       THEN /\ LET seeked == [AudioEl EXCEPT
                                !.position = Min(SeekTarget(Words[k]),
                                                 Duration(currentAudioUrl))]
               IN ApplyPlayState(TRUE,
                                 IF ~isPlaying
                                 THEN ElPlay(seeked, Duration(currentAudioUrl))
                                 ELSE seeked,
                                 VideoEl)
            /\ pendingTicks' = pendingTicks \cup {audioGeneration}
            /\ Rerender(currentTime)
       ELSE UNCHANGED << isPlaying, audioPaused, audioPosition, audioPlayPromise,
                         videoPaused, videoPlayPromise, videoEvents, pendingTicks,
                         currentWordIndex >>
    /\ UNCHANGED << captionText, currentVideoUrl, currentAudioUrl, currentAlignment,
                    currentTime, audioRef, audioGeneration, videoRef,
                    queryVars, analyzerVars, copyVars, historyVars, buildVars >>

\* handleTimeUpdate, on a queued timeupdate event that generation g queued
handleTimeUpdate(g) ==
    /\ g \in pendingTicks
    /\ pendingTicks' = pendingTicks \ {g}
    /\ currentTime' = IF audioRef THEN audioPosition ELSE currentTime
    /\ lastEvent' = Event("timeupdate", 0)
    /\ Rerender(IF audioRef THEN audioPosition ELSE currentTime)
    /\ UNCHANGED << isPlaying, captionText, currentVideoUrl, currentAudioUrl,
                    currentAlignment, audioRef, audioPaused, audioPosition,
                    audioPlayPromise, audioGeneration, videoRef, videoPaused,
                    videoPlayPromise, videoEvents, queryVars, analyzerVars,
                    copyVars, historyVars, buildVars >>

\* onEnded={() => onPlayStateChange?.(false)}: the track reached its end.
\* The ended event is dispatched behind the media events queued before it.
AudioEnded ==
    /\ audioRef
    /\ ~audioPaused
    /\ audioPosition >= Duration(currentAudioUrl)
    /\ videoEvents = {}
    /\ ApplyPlayState(FALSE, [AudioEl EXCEPT !.paused = TRUE], VideoEl)
    /\ Rerender(currentTime)
    /\ lastEvent' = Event("ended", 0)
    /\ UNCHANGED << captionText, currentVideoUrl, currentAudioUrl, currentAlignment,
                    currentTime, audioRef, audioGeneration, pendingTicks,
                    videoRef, queryVars, analyzerVars, copyVars, historyVars, buildVars >>

-----------------------------------------------------------------------------
(* The user agent *)

\* the promise of audio.play() settles: playback starts, or the request is
\* rejected (autoplay policy, unsupported format, decode failure) and
\* .catch(console.error) logs it
AudioPlaySettles(ok) ==
    /\ audioRef
    /\ audioPlayPromise = "pending"
    /\ audioPaused' = ~ok
    /\ audioPlayPromise' = IF ok THEN "resolved" ELSE "rejected"
    /\ lastEvent' = Event("userAgent", 0)
    /\ UNCHANGED << isPlaying, captionText, currentVideoUrl, currentAudioUrl,
                    currentAlignment, currentTime, currentWordIndex, audioRef,
                    audioPosition, audioGeneration, pendingTicks, videoRef,
                    videoPaused, videoPlayPromise, videoEvents, queryVars,
                    analyzerVars, copyVars, historyVars, buildVars >>

\* playback moves on and queues a timeupdate
AudioAdvance ==
    /\ audioRef
    /\ ~audioPaused
    /\ audioPosition < Duration(currentAudioUrl)
    /\ audioPosition' = audioPosition + 1
    /\ lastEvent' = Event("userAgent", 0)
    /\ pendingTicks' = pendingTicks \cup {audioGeneration}
    /\ UNCHANGED << isPlaying, captionText, currentVideoUrl, currentAudioUrl,
                    currentAlignment, currentTime, currentWordIndex, audioRef,
                    audioPaused, audioPlayPromise, audioGeneration, videoRef,
                    videoPaused, videoPlayPromise, videoEvents, queryVars,
                    analyzerVars, copyVars, historyVars, buildVars >>

\* the promise of video.play() settles
VideoPlaySettles(ok) ==
    /\ videoRef
    /\ videoPlayPromise = "pending"
    /\ videoPlayPromise' = "none"
    /\ videoPaused' = ~ok
    /\ videoEvents' = IF ok THEN videoEvents \cup {"play"} ELSE videoEvents
    /\ lastEvent' = Event("userAgent", 0)
    /\ UNCHANGED << isPlaying, captionText, currentVideoUrl, currentAudioUrl,
                    currentAlignment, currentTime, currentWordIndex, audioRef,
                    audioPaused, audioPosition, audioPlayPromise, audioGeneration,
                    pendingTicks, videoRef, queryVars, analyzerVars, copyVars,
                    historyVars, buildVars >>

\* the user plays or pauses the video with its native controls
VideoControls ==
    /\ videoRef
    /\ videoPaused' = ~videoPaused
    /\ videoPlayPromise' = "none"
    /\ videoEvents' = videoEvents \cup {IF videoPaused THEN "play" ELSE "pause"}
    /\ lastEvent' = Event("videoControls", 0)
    /\ UNCHANGED << isPlaying, captionText, currentVideoUrl, currentAudioUrl,
                    currentAlignment, currentTime, currentWordIndex, audioRef,
                    audioPaused, audioPosition, audioPlayPromise, audioGeneration,
                    pendingTicks, videoRef, queryVars, analyzerVars, copyVars,
                    historyVars, buildVars >>

\* a faulty variant: onPause reports true as onPlay does
ReportedPlayStateAlways(e) == TRUE

\* onPlay={() => onPlayStateChange(true)}, onPause={() => onPlayStateChange(false)}
ReportedPlayState(e) == e = "play"

VideoEvent(e) ==
    /\ e \in videoEvents
    /\ ApplyPlayState(ReportedPlayState(e), AudioEl,
                      [VideoEl EXCEPT !.events = videoEvents \ {e}])
    /\ Rerender(currentTime)
    /\ lastEvent' = Event(e, 0)
    /\ UNCHANGED << captionText, currentVideoUrl, currentAudioUrl, currentAlignment,
                    currentTime, audioRef, audioGeneration, pendingTicks,
                    videoRef, queryVars, analyzerVars, copyVars, historyVars, buildVars >>

-----------------------------------------------------------------------------
(* The copy button of TranscriptViewer.  handleCopy is an async function   *)
(* with no try / catch: it awaits navigator.clipboard.writeText(text), and *)
(* what follows the await runs only if the write is granted.  The promise  *)
(* handleCopy returns is dropped by the onClick that called it.            *)

\* the click on the copy button: handleCopy runs up to its await; the button
\* is rendered only when there is text
handleCopy ==
    /\ captionText # << >>
    /\ clipboardWrites < MaxCopies
    /\ clipboardWrites' = clipboardWrites + 1
    /\ lastEvent' = Event("copy", 0)
    /\ UNCHANGED << isPlaying, captionText, currentVideoUrl, currentAudioUrl,
                    currentAlignment, currentTime, currentWordIndex, audioRef,
                    audioPaused, audioPosition, audioPlayPromise, audioGeneration,
                    pendingTicks, videoRef, videoPaused, videoPlayPromise,
                    videoEvents, copied, copiedTimers, copyResult,
                    queryVars, analyzerVars, historyVars, buildVars >>

\* writeText fulfils: setCopied(true), setTimeout(..., 2000), handleCopy's
\* promise fulfils
ClipboardGranted ==
    /\ clipboardWrites > 0
    /\ copiedTimers < MaxCopies
    /\ clipboardWrites' = clipboardWrites - 1
    /\ copied' = TRUE
    /\ copiedTimers' = copiedTimers + 1
    /\ copyResult' = "fulfilled"
    /\ lastEvent' = Event("clipboardGranted", 0)
    /\ UNCHANGED << isPlaying, captionText, currentVideoUrl, currentAudioUrl,
                    currentAlignment, currentTime, currentWordIndex, audioRef,
                    audioPaused, audioPosition, audioPlayPromise, audioGeneration,
                    pendingTicks, videoRef, videoPaused, videoPlayPromise,
                    videoEvents, queryVars, analyzerVars, historyVars, buildVars >>

\* writeText rejects (access denied): the await throws, nothing catches it,
\* and handleCopy's promise rejects
ClipboardDenied ==
    /\ clipboardWrites > 0
    /\ clipboardWrites' = clipboardWrites - 1
    /\ copyResult' = "rejected"
    /\ lastEvent' = Event("clipboardDenied", 0)
    /\ UNCHANGED << isPlaying, captionText, currentVideoUrl, currentAudioUrl,
                    currentAlignment, currentTime, currentWordIndex, audioRef,
                    audioPaused, audioPosition, audioPlayPromise, audioGeneration,
                    pendingTicks, videoRef, videoPaused, videoPlayPromise,
                    videoEvents, copied, copiedTimers,
                    queryVars, analyzerVars, historyVars, buildVars >>

\* a timer set by handleCopy fires: setCopied(false)
CopiedTimeout ==
    /\ copiedTimers > 0
    /\ copiedTimers' = copiedTimers - 1
    /\ copied' = FALSE
    /\ lastEvent' = Event("copiedTimeout", 0)
    /\ UNCHANGED << isPlaying, captionText, currentVideoUrl, currentAudioUrl,
                    currentAlignment, currentTime, currentWordIndex, audioRef,
                    audioPaused, audioPosition, audioPlayPromise, audioGeneration,
                    pendingTicks, videoRef, videoPaused, videoPlayPromise,
                    videoEvents, clipboardWrites, copyResult,
                    queryVars, analyzerVars, historyVars, buildVars >>

\* the copy button beside loading and clearing a conversation
CopyNext ==
    \/ \E c \in ConversationIds : handleReplayConversation(c)
    \/ resetMirrorInterface
    \/ handleCopy
    \/ ClipboardGranted
    \/ ClipboardDenied
    \/ CopiedTimeout

CopySpec == UIInit /\ [][CopyNext]_vars

-----------------------------------------------------------------------------
(* useAudioAnalyzer (hooks/use-audio-analyzer) and the component using it.  *)
(* An element is [name, paused, ready, connected, listeners]: ready once    *)
(* the user agent has fired canplaythrough, connected once a media element  *)
(* source node of it feeds the analyser.                                    *)

AnElementIds == 1..Len(anElements)

\* new Audio() with its src set, and the two addEventListener calls
NewAudio(name) ==
    [name |-> name, paused |-> TRUE, ready |-> FALSE, connected |-> FALSE,
     listeners |-> {"canplaythrough", "ended"}]

\* requestAnimationFrame(updateFrequencyData): the ref takes the new id, a
\* request it named before stays pending without a name
RequestFrame ==
    /\ animationFrameRef' = TRUE
    /\ orphanFrames' = orphanFrames + (IF animationFrameRef THEN 1 ELSE 0)

\* getByteFrequencyData: something is heard when a connected element plays
Sample(elements) ==
    IF \E e \in 1..Len(elements) : elements[e].connected /\ ~elements[e].paused
    THEN "signal" ELSE "silent"

\* setState of the hook: dropped once the component is unmounted
SetAnState(new) == anState' = IF anMounted THEN new ELSE anState

\* stopCurrent
stopCurrent(elements) ==
    LET a == audioElementRef
        stopped == IF a # 0 THEN [elements EXCEPT ![a].paused = TRUE] ELSE elements
    IN IF sourceRef # 0 THEN [stopped EXCEPT ![sourceRef].connected = FALSE]
       ELSE stopped

\* connectAndPlay: initAudio, stopCurrent, the new element becomes current
connectAndPlay(name) ==
    /\ anMounted
    /\ Len(anElements) < MaxAnalyzerLoads
    /\ anElements' = Append(stopCurrent(anElements), NewAudio(name))
    /\ anCalls' = IF audioElementRef # 0 THEN anCalls \cup {"pause"} ELSE anCalls
    /\ audioElementRef' = Len(anElements) + 1
    /\ sourceRef' = 0
    /\ animationFrameRef' = FALSE
    /\ UNCHANGED << orphanFrames, anState, anMounted, uiVars, queryVars,
                    copyVars, historyVars, buildVars >>

\* loadAudioFromUrl: the name is the last segment of the url
loadAudioFromUrl == connectAndPlay("reply.mp3")

\* loadAudioFile: the name is the file's name
loadAudioFile == connectAndPlay("memo.wav")

\* the user agent fires canplaythrough on element e; the { once: true }
\* listener, if still attached, connects the element and plays it
CanPlayThrough(e) ==
    /\ ~anElements[e].ready
    /\ IF "canplaythrough" \in anElements[e].listeners
       THEN /\ animationFrameRef => orphanFrames < MaxOrphanFrames
            /\ anElements' = [anElements EXCEPT
                                ![e].ready = TRUE,
                                ![e].listeners = @ \ {"canplaythrough"},
                                ![e].connected = TRUE,
                                ![e].paused = FALSE]
            /\ sourceRef' = e
            /\ anCalls' = anCalls \cup {"play"}
            /\ SetAnState([anState EXCEPT !.isPlaying = TRUE,
                                          !.fileName = anElements[e].name])
            /\ RequestFrame
       ELSE /\ anElements' = [anElements EXCEPT ![e].ready = TRUE]
            /\ UNCHANGED << sourceRef, anCalls, anState, animationFrameRef,
                            orphanFrames >>
    /\ UNCHANGED << audioElementRef, anMounted, uiVars, queryVars, copyVars,
                    historyVars, buildVars >>

\* element e plays to its end; its "ended" listener, if attached, runs
ElementEnded(e) ==
    /\ ~anElements[e].paused
    /\ anElements' = [anElements EXCEPT ![e].paused = TRUE]
    /\ IF "ended" \in anElements[e].listeners
       THEN /\ SetAnState([anState EXCEPT !.isPlaying = FALSE])
            /\ animationFrameRef' = FALSE
       ELSE UNCHANGED << anState, animationFrameRef >>
    /\ UNCHANGED << audioElementRef, sourceRef, orphanFrames, anMounted, anCalls,
                    uiVars, queryVars, copyVars, historyVars, buildVars >>

\* togglePlayPause, from the button shown once fileName is set
togglePlayPause ==
    /\ anMounted
    /\ anState.fileName # NoName
    /\ audioElementRef # 0
    /\ IF anElements[audioElementRef].paused
       THEN /\ animationFrameRef => orphanFrames < MaxOrphanFrames
            /\ anElements' = [anElements EXCEPT ![audioElementRef].paused = FALSE]
            /\ anCalls' = anCalls \cup {"play"}
            /\ SetAnState([anState EXCEPT !.isPlaying = TRUE])
            /\ RequestFrame
       ELSE /\ anElements' = [anElements EXCEPT ![audioElementRef].paused = TRUE]
            /\ anCalls' = anCalls \cup {"pause"}
            /\ SetAnState([anState EXCEPT !.isPlaying = FALSE])
            /\ animationFrameRef' = FALSE
            /\ UNCHANGED orphanFrames
    /\ UNCHANGED << audioElementRef, sourceRef, anMounted, uiVars, queryVars,
                    copyVars, historyVars, buildVars >>

\* a pending frame request runs updateFrequencyData, which samples and
\* requests the next frame; named = TRUE for the request the ref names
updateFrequencyData(named) ==
    /\ IF named THEN animationFrameRef ELSE orphanFrames > 0
    /\ SetAnState([anState EXCEPT !.frequencyData = Sample(anElements)])
    /\ animationFrameRef' = TRUE
    /\ orphanFrames' =
          IF named THEN orphanFrames
          ELSE orphanFrames - 1 + (IF animationFrameRef THEN 1 ELSE 0)
    /\ UNCHANGED << anElements, audioElementRef, sourceRef, anMounted, anCalls,
                    uiVars, queryVars, copyVars, historyVars, buildVars >>

\* the component using the hook unmounts: the hook registers no cleanup
AnalyzerUnmount ==
    /\ anMounted
    /\ anMounted' = FALSE
    /\ UNCHANGED << anElements, audioElementRef, sourceRef, animationFrameRef,
                    orphanFrames, anState, anCalls, uiVars, queryVars,
                    copyVars, historyVars, buildVars >>

AnalyzerNext ==
    \/ loadAudioFromUrl
    \/ loadAudioFile
    \/ \E e \in AnElementIds : CanPlayThrough(e)
    \/ \E e \in AnElementIds : ElementEnded(e)
    \/ togglePlayPause
    \/ \E named \in BOOLEAN : updateFrequencyData(named)
    \/ AnalyzerUnmount

AnalyzerSpec == UIInit /\ [][AnalyzerNext]_vars

-----------------------------------------------------------------------------

\* the playback interface, its conversations loaded from the history
UINext ==
    \/ \E c \in ConversationIds : handleReplayConversation(c)
    \/ resetMirrorInterface
    \/ handlePlayPause
    \/ \E k \in 1..Len(Words) : handleWordClick(k)
    \/ \E g \in pendingTicks : handleTimeUpdate(g)
    \/ AudioEnded
    \/ \E ok \in BOOLEAN : AudioPlaySettles(ok)
    \/ AudioAdvance
    \/ \E ok \in BOOLEAN : VideoPlaySettles(ok)
    \/ VideoControls
    \/ \E e \in videoEvents : VideoEvent(e)

Next == UINext

Spec == UIInit /\ [][Next]_vars

\* the query round trip, with the playback steps that do not need the video
QueryNext ==
    \/ \E t \in InputTexts : setInputText(t)
    \/ handleSendMessage
    \/ \E c \in ConversationIds : QuerySuccess(c)
    \/ QuerySuccessIncomplete
    \/ \E reply \in FailedReplies : QueryError(reply)
    \/ \E c \in ConversationIds : handleReplayConversation(c)
    \/ handlePlayPause
    \/ \E g \in pendingTicks : handleTimeUpdate(g)
    \/ AudioEnded
    \/ \E ok \in BOOLEAN : AudioPlaySettles(ok)
    \/ AudioAdvance

QuerySpec == UIInit /\ [][QueryNext]_vars

\* the history drawer, and a memory query that succeeds beside it with the
\* first conversation
HistoryNext ==
    \/ OpenHistory
    \/ onClose
    \/ \E q \in SearchQueries : handleSearch(q)
    \/ handleLoadMore
    \/ \E key \in QueryKeys : FetchSettles(key)
    \/ \E id \in 1..InitialRows : handleDelete(id)
    \/ \E t \in InputTexts : setInputText(t)
    \/ handleSendMessage
    \/ QuerySuccess(1)

HistorySpec == UIInit /\ [][HistoryNext]_vars

\* the reply to a pending query: one of the three ways the mutation settles
QueryReply ==
    \/ \E c \in ConversationIds : QuerySuccess(c)
    \/ QuerySuccessIncomplete
    \/ \E reply \in FailedReplies : QueryError(reply)

\* the server action answers every call: a pending mutation settles
QueryLiveSpec == QuerySpec /\ WF_vars(QueryReply)

BuildSpec == BuildInit /\ [][BuildNext]_vars

-----------------------------------------------------------------------------
(* What the render shows for the word at 0-based index i (lines 261-276) *)

IsCurrent(i) == i = currentWordIndex
IsSpoken(word) == currentAlignment.present /\ JsGreater(currentTime, word.endTime)

\* the class of the <span>: "current", "spoken" (muted) or "plain"
RenderState(i) ==
    IF IsCurrent(i) THEN "current"
    ELSE IF IsSpoken(Words[i + 1]) THEN "spoken"
    ELSE "plain"

\* the words are rendered at all (the placeholder is shown for an empty text)
WordsRendered == captionText # << >>

-----------------------------------------------------------------------------
(* Vocabulary of the properties, stated without the parser's own operators *)

\* the whitespace-delimited non-empty tokens of s, in reading order
TokenStarts(s) ==
    { i \in 1..Len(s) : ~IsWhitespace(s[i]) /\ (i = 1 \/ IsWhitespace(s[i - 1])) }

TokenCount(s) == Cardinality(TokenStarts(s))

TokenEnd(s, i) ==
    CHOOSE j \in i..Len(s) :
        /\ \A k \in i..j : ~IsWhitespace(s[k])
        /\ j = Len(s) \/ IsWhitespace(s[j + 1])

NthTokenStart(s, n) ==
    CHOOSE i \in TokenStarts(s) :
        Cardinality({ j \in TokenStarts(s) : j < i }) = n - 1

Tokens(s) ==
    [n \in 1..TokenCount(s) |->
        SubSeq(s, NthTokenStart(s, n), TokenEnd(s, NthTokenStart(s, n)))]

\* t lies in the half-open interval [startTime, endTime) of a segment
InInterval(seg, t) ==
    /\ seg.startTime >= 0 /\ seg.endTime >= 0
    /\ seg.startTime <= t /\ t < seg.endTime

\* every segment has startTime = endTime = 0
AllDegenerate(segs) ==
    \A i \in 1..Len(segs) : segs[i].startTime = 0 /\ segs[i].endTime = 0

Built == bpc # "input"

\* no internal event is left to run: what happens next is up to the user
Quiescent ==
    /\ pendingTicks = {}
    /\ videoEvents = {}
    /\ videoPlayPromise # "pending"
    /\ audioPlayPromise # "pending"

-----------------------------------------------------------------------------
(* C1.  For every segment list and every playback time t the locator yields *)
(* the first index i with segments[i].startTime <= t < segments[i].endTime, *)
(* and -1 when the list is empty or no segment's interval contains t.       *)
C1_LocatorFirstContaining ==
    bpc = "located" =>
        LET segs == bResult.segs
        IN /\ bIndex \in -1..(Len(segs) - 1)
           /\ bIndex = -1 => \A i \in 1..Len(segs) : ~InInterval(segs[i], bTime)
           /\ bIndex # -1 =>
                /\ InInterval(segs[bIndex + 1], bTime)
                /\ \A j \in 1..bIndex : ~InInterval(segs[j], bTime)

\* the locator answered with the earlier of two segments that both contain t
C1_Witness ==
    /\ bpc = "located"
    /\ bIndex = 0
    /\ Len(bResult.segs) >= 2
    /\ InInterval(bResult.segs[2], bTime)

(* C2.  In every settled state currentWordIndex equals the locator's result *)
(* for the current segment list and the current playback time.              *)
C2_IndexIsLocatorResult ==
    currentWordIndex = findCurrentIndex(Words, currentTime)

(* C3.  Whenever every segment has startTime = endTime = 0, no rendered     *)
(* word is in the "current" state and none is in the "already spoken" state.*)
C3_DegenerateNeverHighlighted ==
    (WordsRendered /\ AllDegenerate(Words)) =>
        \A i \in 0..(Len(Words) - 1) : RenderState(i) = "plain"

(* C4.  After a rejected request to start the audio, isPlaying becomes      *)
(* false: once nothing internal is left to run, the state is not            *)
(* isPlaying = TRUE with the audio's play request rejected.                 *)
C4_RejectedPlayRevertsIsPlaying ==
    (audioPlayPromise = "rejected" /\ Quiescent) => ~isPlaying

(* C5.  A timeupdate event queued by a superseded audio source changes      *)
(* neither currentTime nor currentWordIndex.                                *)
C5_StaleTicksDropped ==
    [][\A g \in pendingTicks :
          (g < audioGeneration /\ handleTimeUpdate(g)) =>
              (currentTime' = currentTime /\ currentWordIndex' = currentWordIndex)]_vars

(* C6.  For every non-empty narrative and every alignment shape the segment *)
(* list has as many segments as the narrative has whitespace-delimited      *)
(* non-empty tokens.                                                        *)
C6_SegmentCountIsTokenCount ==
    (Built /\ bText # << >>) =>
        /\ ~bResult.threw
        /\ Len(bResult.segs) = TokenCount(bText)

(* C7.  With a non-empty word-level list the segment list is that list      *)
(* mapped entry by entry in order: text, start and end unchanged, index     *)
(* the position; the character arrays of the payload are not consulted.     *)
C7_WordLevelMapsEntries ==
    (Built /\ bAlignment.present /\ bAlignment.words # << >>) =>
        /\ ~bResult.threw
        /\ Len(bResult.segs) = Len(bAlignment.words)
        /\ \A i \in 1..Len(bAlignment.words) :
              /\ bResult.segs[i].word = bAlignment.words[i].text
              /\ bResult.segs[i].startTime = bAlignment.words[i].start
              /\ bResult.segs[i].endTime = bAlignment.words[i].end
              /\ bResult.segs[i].index = i - 1

\* a payload with two word entries, a later start above 0, and character
\* arrays beside them
C7_Witness ==
    /\ Built
    /\ bAlignment.present
    /\ Len(bAlignment.words) = 2
    /\ bAlignment.words[2].start = 2
    /\ bAlignment.characters # << >>
    /\ Len(bResult.segs) = 2

(* C8.  With alignment absent, or present with neither word entries nor     *)
(* characters, the segment list is the narrative's whitespace-delimited     *)
(* tokens in reading order, each with startTime = endTime = 0.              *)
C8_FallbackIsTokenList ==
    (Built /\ (~bAlignment.present
               \/ (bAlignment.words = << >> /\ bAlignment.characters = << >>))) =>
        /\ ~bResult.threw
        /\ bResult.segs =
              [n \in 1..TokenCount(bText) |->
                  [word |-> Tokens(bText)[n], startTime |-> 0, endTime |-> 0,
                   index |-> n - 1]]

(* C9.  For an empty narrative the builder returns the empty sequence in    *)
(* every alignment branch.                                                  *)
C9_EmptyTextEmptySegments ==
    (Built /\ bText = << >>) => (~bResult.threw /\ bResult.segs = << >>)

(* C10.  Building segments from a character-level payload never raises an   *)
(* error and never yields a segment whose time is undefined or NaN, also    *)
(* when a timing array is missing, shorter or longer than characters.       *)
C10_CharBranchNeverFails ==
    (Built /\ bAlignment.present /\ bAlignment.words = << >>
           /\ bAlignment.characters # << >>) =>
        /\ ~bResult.threw
        /\ \A i \in 1..Len(bResult.segs) :
              bResult.segs[i].startTime >= 0 /\ bResult.segs[i].endTime >= 0

\* a character-level payload whose timing arrays are missing, empty, or not
\* as long as characters
TimingArraysMalformed(al) ==
    /\ al.present
    /\ al.words = << >>
    /\ \/ ~al.hasStartTimes
       \/ ~al.hasEndTimes
       \/ al.character_start_times_ms = << >>
       \/ al.character_end_times_ms = << >>
       \/ Len(al.character_start_times_ms) # Len(al.characters)
       \/ Len(al.character_end_times_ms) # Len(al.characters)

(* C11.  When the alignment's timing arrays are missing, of mismatched      *)
(* length or empty, the build raises nothing and the segment list is the    *)
(* whitespace split of the narrative, every segment with start = end = 0.   *)
C11_MalformedTimingFallsBack ==
    (Built /\ TimingArraysMalformed(bAlignment)) =>
        /\ ~bResult.threw
        /\ AllDegenerate(bResult.segs)
        /\ [i \in 1..Len(bResult.segs) |-> bResult.segs[i].word]
              = SplitWhitespace(bText)

\* startTime = endTime = 0
DegenerateTiming(word) == word.startTime = 0 /\ word.endTime = 0

\* what a click must leave alone when it is not a seek
AudioUntouched ==
    /\ audioPosition' = audioPosition
    /\ audioPaused' = audioPaused
    /\ audioPlayPromise' = audioPlayPromise
    /\ isPlaying' = isPlaying

(* C12.  A click on a word whose segment has startTime = endTime = 0, or    *)
(* while no alignment or no audio element is bound, changes neither the     *)
(* audio position nor the play state and requests no play.                  *)
C12_UnseekableClickChangesNothing ==
    [][\A k \in 1..Len(Words) :
          (/\ handleWordClick(k)
           /\ \/ DegenerateTiming(Words[k])
              \/ ~currentAlignment.present
              \/ ~audioRef)
          => AudioUntouched]_vars

\* a zero-timed word was clicked while an alignment and an audio element were
\* bound and nothing was playing
C12_Witness ==
    /\ lastEvent.name = "click"
    /\ captionText # << >>
    /\ DegenerateTiming(Words[lastEvent.arg])
    /\ currentAlignment.present
    /\ audioRef
    /\ ~isPlaying
    /\ audioPaused

(* C13.  A permitted seek to segment k sets the audio position to exactly   *)
(* segments[k].startTime; with isPlaying false it requests play and         *)
(* isPlaying becomes true; with isPlaying true it issues no play request    *)
(* and isPlaying stays true.                                                *)
C13_SeekSetsPositionAndPlays ==
    [][\A k \in 1..Len(Words) :
          (/\ handleWordClick(k)
           /\ IsClickable(Words[k]) /\ audioRef /\ currentAlignment.present)
          => /\ audioPosition' = Words[k].startTime
             /\ isPlaying'
             /\ ~isPlaying => audioPlayPromise' = "pending"
             /\ isPlaying => /\ audioPlayPromise' = audioPlayPromise
                             /\ audioPaused' = audioPaused]_vars

\* a click has moved the audio to the start of a later word and a play
\* request is pending
C13_Witness ==
    /\ lastEvent.name = "click"
    /\ captionText # << >>
    /\ audioRef
    /\ audioPosition = Words[lastEvent.arg].startTime
    /\ audioPosition > 0
    /\ audioPlayPromise = "pending"
    /\ isPlaying

\* nothing plays and nothing is on its way to start playing
NothingPlaying ==
    /\ ~isPlaying
    /\ audioPaused
    /\ audioPlayPromise # "pending"
    /\ videoPlayPromise # "pending"
    /\ "play" \notin videoEvents

\* Ended: the audio is bound and paused at its end, and nothing plays
EndedState ==
    /\ audioRef
    /\ audioPosition >= Duration(currentAudioUrl)
    /\ NothingPlaying

\* the steps a user's explicit request takes: a word click, the play / pause
\* button, a replay, a new query result, the video's own controls
ExplicitRequests == {"click", "playPause", "replay", "onSuccess", "videoControls"}

JustLoaded == lastEvent.name \in {"onSuccess", "replay"}

(* C15.  Right after a conversation is loaded (query success or history     *)
(* replay) the controller is in Loaded: the new source is bound, nothing of *)
(* the previous source plays on, the audio is paused at position 0,         *)
(* currentTime is 0 and isPlaying is false.                                 *)
C15_LoadLeavesLoaded ==
    JustLoaded =>
        /\ audioRef
        /\ currentAudioUrl = lastEvent.arg
        /\ audioPaused
        /\ audioPosition = 0
        /\ currentTime = 0
        /\ ~isPlaying

(* C16.  Loading the conversation that is already loaded, whatever was      *)
(* played in between, gives the same segment sequence as the first load     *)
(* and leaves currentTime at 0.                                             *)
C16_ReloadIsIdempotent ==
    [][\A c \in ConversationIds :
          (/\ currentAudioUrl = c
           /\ captionText = Conversations[c].narrative
           /\ currentAlignment = Conversations[c].alignment
           /\ handleReplayConversation(c))
          => (Words' = Words /\ currentTime' = 0)]_vars

\* what a load binds
BoundConversation ==
    << captionText, currentAudioUrl, currentAlignment, currentVideoUrl, isPlaying >>

(* C17.  When the reply generation answers success = false, or the request  *)
(* fails, nothing is loaded: caption text, audio source, alignment, video   *)
(* URL and isPlaying stay as they were and the segment list is not rebuilt  *)
(* from anything new; the error notice shows the message the collaborator   *)
(* gave, when it gave one.                                                  *)
C17_FailedReplyLoadsNothing ==
    [][\A reply \in FailedReplies :
          QueryError(reply) =>
              /\ BoundConversation' = BoundConversation
              /\ Words' = Words
              /\ audioGeneration' = audioGeneration
              /\ (reply.stage = "generate" /\ reply.message # "") =>
                    toast' = Toast("error", reply.message)]_vars

\* a failed reply with a message arrived while an earlier conversation was
\* bound and playing, and the notice shows that message
C17_Witness ==
    /\ lastEvent.name = "onError"
    /\ toast = Toast("error", "No clip matches")
    /\ captionText # << >>
    /\ currentAudioUrl # 0
    /\ isPlaying
    /\ ~queryPending

(* C18.  After a failed query the view holds no transcript text and no      *)
(* audio source: neither of the failed request nor of a conversation        *)
(* loaded before it.                                                        *)
C18_FailureLeavesNothingBound ==
    lastEvent.name = "onError" =>
        /\ captionText = << >>
        /\ currentAudioUrl = 0
        /\ ~audioRef


\* C19: the analyzer never calls play, pause or seek on an audio element
\* itself: the set of media calls made by the analyzer hook stays empty
C19_AnalyzerNeverDrivesAudio == anCalls = {}

\* the listeners of an element the hook no longer names as current
StaleListeners ==
    UNION { anElements[e].listeners : e \in AnElementIds \ {audioElementRef} }

\* C20: once the audio source has been replaced, the element replaced has no
\* listener left, and once the view is torn down no element has a listener
\* and no animation-frame request is pending
C20_ReplacedElementIsReleased ==
    /\ StaleListeners = {}
    /\ ~anMounted =>
          /\ \A e \in AnElementIds : anElements[e].listeners = {}
          /\ ~animationFrameRef
          /\ orphanFrames = 0


\* C21: when clipboard access is denied, the rejection does not leave the
\* copy handler (its promise does not reject) and the "copied" indicator is
\* not switched on
C21_DeniedCopyFailsSilently ==
    [][(lastEvent'.name = "clipboardDenied" /\ clipboardWrites' < clipboardWrites)
          => (copyResult' # "rejected" /\ (copied' => copied))]_vars


\* a play() call was made on the source now bound and not undone by a pause
PlayRequested == audioPlayPromise # "none"

\* C22: in every settled state isPlaying agrees with the audio element: when
\* isPlaying is true and an audio source is bound, play has been requested on
\* that source, also when the source arrived while isPlaying was already true
C22_IsPlayingMeansPlayRequested ==
    (Quiescent /\ isPlaying /\ audioRef /\ currentAudioUrl # 0) => PlayRequested


\* C23: at most one audio element is live: no element other than the one
\* bound last is playing, whatever the order of loads and canplaythrough
\* events
C23_OnlyCurrentElementPlays ==
    \A e \in AnElementIds \ {audioElementRef} : anElements[e].paused


\* a space or a newline closes a word
IsBoundary(c) == c = " " \/ c = "\n"

\* the character-level branch ran to its end on this payload
CharBranchRan(al) ==
    /\ al.present
    /\ al.words = << >>
    /\ al.characters # << >>
    /\ ~CharBranchThrows(al)

\* the characters at positions from..(to - 1) that are no boundary
Accumulated(chars, from, to) ==
    SelectSeq(SubSeq(chars, from, to - 1), LAMBDA c : ~IsBoundary(c))

\* the position of the first character at or after from that is no boundary
RECURSIVE FirstAccumulated(_, _)
FirstAccumulated(chars, from) ==
    IF from > Len(chars) \/ ~IsBoundary(chars[from]) THEN from
    ELSE FirstAccumulated(chars, from + 1)

\* the words closed by a boundary, each as [first, boundary]: the position of
\* the first character accumulated into it and of the boundary closing it.
\* from is where the buffer was emptied last, j the position looked at
RECURSIVE ClosedWords(_, _, _)
ClosedWords(chars, from, j) ==
    IF j > Len(chars) THEN << >>
    ELSE IF IsBoundary(chars[j]) /\ Trim(Accumulated(chars, from, j)) # << >>
         THEN << [first |-> FirstAccumulated(chars, from), boundary |-> j] >>
                 \o ClosedWords(chars, j + 1, j + 1)
         ELSE ClosedWords(chars, from, j + 1)

\* C24: in the character-level branch each word closed by a space or newline
\* starts at the start time of the first character accumulated into it and
\* ends at the end time of that boundary character, both divided by 1000;
\* a boundary met with an empty buffer emits nothing
C24_ClosedWordTimes ==
    (Built /\ CharBranchRan(bAlignment)) =>
        LET chars == bAlignment.characters
            closed == ClosedWords(chars, 1, 1)
            segs == bResult.segs
        IN /\ Len(segs) \in {Len(closed), Len(closed) + 1}
           /\ \A k \in 1..Len(closed) :
                /\ segs[k].startTime =
                      MsToSeconds(ArrayGet(bAlignment.character_start_times_ms,
                                           closed[k].first))
                /\ segs[k].endTime =
                      MsToSeconds(ArrayGet(bAlignment.character_end_times_ms,
                                           closed[k].boundary))

\* two boundaries in a row after a word: one segment, closed by the first
C24_Witness ==
    /\ Built
    /\ CharBranchRan(bAlignment)
    /\ bAlignment.characters = << "a", " ", "\n" >>
    /\ Len(bAlignment.character_end_times_ms) = 3
    /\ Len(bAlignment.character_start_times_ms) = 3
    /\ Len(bResult.segs) = 1
    /\ bResult.segs[1].endTime = bAlignment.character_end_times_ms[2]


\* both timing arrays are carried and are as long as characters
FullTiming(al) ==
    /\ al.hasStartTimes
    /\ al.hasEndTimes
    /\ Len(al.character_start_times_ms) = Len(al.characters)
    /\ Len(al.character_end_times_ms) = Len(al.characters)

\* C25: for a character-level payload that yields a segment, the first
\* segment starts at the start time of the first non-space character and the
\* last segment ends at the end time of the payload's final character, with
\* or without whitespace at the end of the characters
C25_FirstStartLastEnd ==
    (Built /\ CharBranchRan(bAlignment) /\ FullTiming(bAlignment)
           /\ bResult.segs # << >>) =>
        LET chars == bAlignment.characters
            segs == bResult.segs
        IN /\ segs[1].startTime =
                MsToSeconds(bAlignment.character_start_times_ms[
                                SkipWhitespace(chars, 1)])
           /\ segs[Len(segs)].endTime =
                MsToSeconds(bAlignment.character_end_times_ms[Len(chars)])


\* a <= b on numbers; false when either side is NaN
StartsInOrder(a, b) == IsNumber(a) /\ IsNumber(b) /\ a <= b

\* C26: in every segment list the builder produces, whichever branch built
\* it, segments[i].index = i and no segment starts before the one before it
C26_IndexedAndOrdered ==
    (Built /\ ~bResult.threw) =>
        LET segs == bResult.segs
        IN /\ \A i \in 1..Len(segs) : segs[i].index = i - 1
           /\ \A i \in 1..(Len(segs) - 1) :
                StartsInOrder(segs[i].startTime, segs[i + 1].startTime)


\* everything a send could change, the record of the last event aside
SendVisibleState ==
    << isPlaying, captionText, currentVideoUrl, currentAudioUrl, currentAlignment,
       currentTime, currentWordIndex, audioRef, audioPaused, audioPosition,
       audioPlayPromise, audioGeneration, pendingTicks, videoRef, videoPaused,
       videoPlayPromise, videoEvents, queryVars >>

\* C27: at most one query is in flight: a send while a query is pending, or
\* with blank input, starts no query and changes no state; an accepted send
\* clears the input text and submits the trimmed text
C27_SendGuard ==
    [][lastEvent'.name = "send" =>
          IF queryPending \/ Trim(inputText) = << >>
          THEN UNCHANGED SendVisibleState
          ELSE /\ inputText' = << >>
               /\ queryPrompt' = Trim(inputText)
               /\ queryPending']_vars

\* a send was turned away while a query was pending and the box held text
C27_Witness ==
    /\ lastEvent.name = "send"
    /\ queryPending
    /\ Trim(inputText) # << >>
    /\ queryPrompt = << "q" >>


\* C28: every started query ends with the "Searching your memories..."
\* notice replaced by a success notice or an error notice, also when the
\* reply succeeds without a video url, audio or narrative
C28_LoadingNoticeReplaced ==
    (toast.kind = "loading") ~> (toast.kind \in {"success", "error"})


\* no id occurs twice in the list
NoDuplicates(list) ==
    \A i, j \in 1..Len(list) : list[i] = list[j] => i = j

\* C29: the conversation list accumulated for the history drawer never holds
\* the same conversation id twice, after any sequence of load-more, search,
\* delete and refetches after an invalidation
C29_HistoryHasNoDuplicates ==
    /\ NoDuplicates(allConversations)
    /\ NoDuplicates(ShownConversations)


\* C30: a click on a word seeks exactly when an alignment is present and the
\* word's startTime is strictly greater than 0; a word that starts at 0 is
\* never sought, also when its endTime is not 0
C30_SeekableIffStartsAfterZero ==
    [][\A k \in 1..Len(Words) :
          handleWordClick(k) =>
              IF currentAlignment.present /\ Words[k].startTime > 0
              THEN /\ audioPosition' = Words[k].startTime
                   /\ isPlaying'
              ELSE /\ AudioUntouched
                   /\ pendingTicks' = pendingTicks]_vars

\* a word from 0 to a later end was clicked under an alignment while the
\* audio was stopped past the start: it stayed there
C30_Witness ==
    /\ lastEvent.name = "click"
    /\ captionText # << >>
    /\ currentAlignment.present
    /\ Words[lastEvent.arg].startTime = 0
    /\ Words[lastEvent.arg].endTime > 0
    /\ audioRef
    /\ ~isPlaying
    /\ audioPosition > 0

====
